---- MODULE Spec2Model ----
(***************************************************************************)
(* Cloud File Upload API (main.py): a FastAPI service forwarding uploaded  *)
(* files to S3, Google Cloud Storage and Google Drive.                     *)
(*                                                                         *)
(* Each request handler is a coroutine; the event loop runs it atomically  *)
(* from one await to the next, so every action below is one such slice.    *)
(* Vendor clients are external: their outcomes are inputs of the actions,  *)
(* and every client construction, credential step and vendor call a        *)
(* handler makes is written to the request's call log.                     *)
(*                                                                         *)
(* Strings built with f-strings are sequences of their parts (TLA+ has no  *)
(* string concatenation); an Optional value is <<>> (None) or <<v>>.       *)
(***************************************************************************)
EXTENDS Integers, Sequences, FiniteSets, TLC

VARIABLES environ,      \* os.environ of the process
          CloudConfig,  \* class attributes of CloudConfig, read at import
          upfile,       \* the UploadFile object handed to each request
          req           \* per request: handler position, locals, response

vars == <<environ, CloudConfig, upfile, req>>

----------------------------------------------------------------------------
(* Bounds and input universes *)

MaxLen == 2                      \* longest file content enumerated
Octets == {1, 2}                 \* byte values enumerated

None == "<None>"                 \* Python None where a str is expected

Backends == {"s3", "gcs", "drive"}

RECURSIVE SeqsUpTo(_)
SeqsUpTo(n) ==
    IF n = 0 THEN {<<>>}
    ELSE LET S == SeqsUpTo(n - 1) IN
         S \cup {Append(s, o) : s \in {t \in S : Len(t) = n - 1}, o \in Octets}

FileNames == {"a.txt", "b.txt"}
Files == [filename : FileNames, content : SeqsUpTo(MaxLen)]

\* credential file states seen by get_drive_service at cred/drive/token.json
Tokens ==
    {t \in [exists : BOOLEAN, wellformed : BOOLEAN, valid : BOOLEAN,
            expired : BOOLEAN, refresh_token : BOOLEAN] :
        /\ ~t.exists => (~t.wellformed /\ ~t.valid /\ ~t.expired /\ ~t.refresh_token)
        /\ ~t.wellformed => (~t.valid /\ ~t.expired /\ ~t.refresh_token)
        /\ ~(t.valid /\ t.expired)}

\* what the clients and the environment may do in a run
AllInputs ==
    [files     |-> Files,
     io        |-> BOOLEAN,
     client    |-> BOOLEAN,
     s3put     |-> {"ok", "NoCredentialsError", "ClientError", "Exception"},
     vendor    |-> BOOLEAN,
     tokens    |-> Tokens,
     fields    |-> SUBSET {"id", "webViewLink"},
     listings  |-> {<<>>, <<"a.txt">>}]

\* two requests in flight: two distinguishable files, one failure per call site
ConcInputs ==
    [files     |-> {[filename |-> "a.txt", content |-> <<1, 2>>],
                    [filename |-> "b.txt", content |-> <<2>>]},
     io        |-> {TRUE},
     client    |-> {TRUE},
     s3put     |-> {"ok", "ClientError"},
     vendor    |-> BOOLEAN,
     tokens    |-> {t \in Tokens : t.valid \/ ~t.exists},
     fields    |-> {{"id", "webViewLink"}},
     listings  |-> {<<"a.txt">>}]

Reqs == {"r1", "r2"}
SeqReqs == {"r1"}

----------------------------------------------------------------------------
(* Python values *)

Truthy(v) == v # None /\ v # ""

getenv(env, key, default) == IF env[key] = None THEN default ELSE env[key]

\* the variables CloudConfig reads and the handlers act on, unset (None) or set.
\* AWS_SECRET_ACCESS_KEY and GOOGLE_DRIVE_FOLDER_ID only shape arguments of vendor
\* calls; GOOGLE_DRIVE_TOKEN_FILE is read by no handler.
Environments ==
    [AWS_ACCESS_KEY_ID              : {None, "AKIA"},
     AWS_REGION                     : {None},
     S3_BUCKET_NAME                 : {None, "", "s3bkt"},
     GCS_BUCKET_NAME                : {None, "gcsbkt"},
     GOOGLE_APPLICATION_CREDENTIALS : {None, "sa.json"},
     GOOGLE_DRIVE_CREDENTIALS_FILE  : {None, "credentials.json"}]

LoadConfig(env) ==
    [AWS_ACCESS_KEY_ID              |-> getenv(env, "AWS_ACCESS_KEY_ID", None),
     AWS_REGION                     |-> getenv(env, "AWS_REGION", "us-east-1"),
     S3_BUCKET_NAME                 |-> getenv(env, "S3_BUCKET_NAME", None),
     GCS_BUCKET_NAME                |-> getenv(env, "GCS_BUCKET_NAME", None),
     GOOGLE_APPLICATION_CREDENTIALS |-> getenv(env, "GOOGLE_APPLICATION_CREDENTIALS", None),
     GOOGLE_DRIVE_CREDENTIALS_FILE  |-> getenv(env, "GOOGLE_DRIVE_CREDENTIALS_FILE", None)]

\* UploadFile: a spooled file with a cursor
NoFile == [filename |-> "", content |-> <<>>, cursor |-> 0]

NewUploadFile(f) == [filename |-> f.filename, content |-> f.content, cursor |-> 0]

\* a seek that leaves the cursor where the last read put it
seek_ignored(f, pos) == f

seek(f, pos) == [f EXCEPT !.cursor = pos]

read(f) ==
    [data |-> SubSeq(f.content, f.cursor + 1, Len(f.content)),
     file |-> [f EXCEPT !.cursor = Len(f.content)]]

\* one module-level UploadFile used by every handler
FileOfShared(r) == "r1"

\* the UploadFile a handler's `file` parameter is bound to
FileOf(r) == r

\* one entry of a request's call log
Call(b, op, outcome, name, body) ==
    [backend |-> b, op |-> op, outcome |-> outcome, name |-> name, body |-> body]

\* exceptions and handler return values
NoExc == [raised |-> FALSE, status |-> 0, detail |-> <<>>]

HTTPException(status, detail) == [raised |-> TRUE, status |-> status, detail |-> detail]

StatusStr(s) == IF s = 401 THEN "401" ELSE IF s = 500 THEN "500" ELSE "?"

\* str(e) of an HTTPException
str(e) == <<StatusStr(e.status), ": ">> \o e.detail

UploadResponse(message, file_url, file_id) ==
    [raised |-> FALSE, status |-> 200, success |-> TRUE, message |-> message,
     file_url |-> file_url, file_id |-> file_id]

Raised(e) ==
    [raised |-> TRUE, status |-> e.status, success |-> FALSE, message |-> e.detail,
     file_url |-> <<>>, file_id |-> <<>>]

----------------------------------------------------------------------------
(* Vendor client factories *)

\* a not-configured check answering with a client error
NotConfigured400(detail) == HTTPException(400, detail)

\* the bucket-name checks ahead of the try blocks of the S3 and GCS handlers
NotConfigured(detail) == HTTPException(500, detail)

\* get_s3_client: boto3.client(...) or HTTPException 500
get_s3_client(ok) ==
    IF ok
    THEN [exc |-> NoExc, calls |-> <<Call("s3", "client", "ok", "", <<>>)>>]
    ELSE [exc |-> HTTPException(500, <<"Failed to initialize S3 client: ", "boto3 error">>),
          calls |-> <<Call("s3", "client", "error", "", <<>>)>>]

\* get_gcs_client: exports the credentials path, then gcs.Client()
get_gcs_client(cfg, env, ok) ==
    LET env1 == IF Truthy(cfg.GOOGLE_APPLICATION_CREDENTIALS)
                THEN [env EXCEPT !["GOOGLE_APPLICATION_CREDENTIALS"] =
                                     cfg.GOOGLE_APPLICATION_CREDENTIALS]
                ELSE env
    IN  IF ok
        THEN [exc |-> NoExc, env |-> env1,
              calls |-> <<Call("gcs", "client", "ok", "", <<>>)>>]
        ELSE [exc |-> HTTPException(500, <<"Failed to initialize GCS client: ", "gcs error">>),
              env |-> env1,
              calls |-> <<Call("gcs", "client", "error", "", <<>>)>>]

\* the 401 raised inside get_drive_service's try block
AuthRequired ==
    HTTPException(401, <<"Google Drive authentication required. Please run google_auth_flow.py to authenticate.">>)

\* the except clause of get_drive_service: every exception becomes a 500
DriveInitError(text) ==
    HTTPException(500, <<"Failed to initialize Drive service: ">> \o text)

\* get_drive_service: load the token, refresh it if possible, build the service
get_drive_service(in) ==
    LET t == in.token
        creds == t.exists
        load == IF t.exists
                THEN <<Call("drive", "token", IF t.wellformed THEN "loaded" ELSE "malformed", "", <<>>)>>
                ELSE <<Call("drive", "token", "absent", "", <<>>)>>
    IN  IF t.exists /\ ~t.wellformed
        THEN [exc |-> DriveInitError(<<"ValueError">>), calls |-> load]
        ELSE IF ~creds \/ ~t.valid
        THEN IF creds /\ t.expired /\ t.refresh_token
             THEN IF in.refresh
                  THEN IF in.client
                       THEN [exc |-> NoExc,
                             calls |-> load \o <<Call("drive", "refresh", "ok", "", <<>>),
                                                 Call("drive", "client", "ok", "", <<>>)>>]
                       ELSE [exc |-> DriveInitError(<<"build error">>),
                             calls |-> load \o <<Call("drive", "refresh", "ok", "", <<>>),
                                                 Call("drive", "client", "error", "", <<>>)>>]
                  ELSE [exc |-> DriveInitError(<<"RefreshError">>),
                        calls |-> load \o <<Call("drive", "refresh", "error", "", <<>>)>>]
             ELSE [exc |-> DriveInitError(str(AuthRequired)),
                   calls |-> load \o <<Call("drive", "auth_required", "raised", "", <<>>)>>]
        ELSE IF in.client
             THEN [exc |-> NoExc,
                   calls |-> load \o <<Call("drive", "client", "ok", "", <<>>)>>]
             ELSE [exc |-> DriveInitError(<<"build error">>),
                   calls |-> load \o <<Call("drive", "client", "error", "", <<>>)>>]

----------------------------------------------------------------------------
(* Upload handlers, each split at its one await (file.read) *)

\* upload_to_s3 up to `await file.read()`
upload_to_s3_enter(cfg, env, in) ==
    IF ~Truthy(cfg.S3_BUCKET_NAME)
    THEN [exc |-> NotConfigured(<<"S3 bucket name not configured">>),
          env |-> env, calls |-> <<>>]
    ELSE LET c == get_s3_client(in.client) IN
         IF c.exc.raised
         THEN [exc |-> HTTPException(500, <<"Upload failed: ">> \o str(c.exc)),
               env |-> env, calls |-> c.calls]
         ELSE [exc |-> NoExc, env |-> env, calls |-> c.calls]

\* upload_to_s3 from the completion of file.read() to its return or raise
upload_to_s3_resume(cfg, f, in) ==
    LET rd == read(f) IN
    IF ~in.io
    THEN [out |-> Raised(HTTPException(500, <<"Upload failed: ", "OSError">>)),
          file |-> f, calls |-> <<>>]
    ELSE [out |->
            CASE in.put = "ok" ->
                   UploadResponse(
                     <<"File '", f.filename, "' uploaded successfully to S3">>,
                     << <<"https://", cfg.S3_BUCKET_NAME, ".s3.", cfg.AWS_REGION,
                          ".amazonaws.com/", f.filename>> >>,
                     <<>>)
              [] in.put = "NoCredentialsError" ->
                   Raised(HTTPException(401, <<"AWS credentials not found">>))
              [] in.put = "ClientError" ->
                   Raised(HTTPException(500, <<"S3 upload failed: ", "ClientError">>))
              [] OTHER ->
                   Raised(HTTPException(500, <<"Upload failed: ", "Exception">>)),
          file |-> rd.file,
          calls |-> <<Call("s3", "put_object", in.put, f.filename, rd.data)>>]

\* upload_to_gcs up to `await file.read()`
upload_to_gcs_enter(cfg, env, in) ==
    IF ~Truthy(cfg.GCS_BUCKET_NAME)
    THEN [exc |-> NotConfigured(<<"GCS bucket name not configured">>),
          env |-> env, calls |-> <<>>]
    ELSE LET c == get_gcs_client(cfg, env, in.client) IN
         IF c.exc.raised
         THEN [exc |-> HTTPException(500, <<"GCS upload failed: ">> \o str(c.exc)),
               env |-> c.env, calls |-> c.calls]
         ELSE [exc |-> NoExc, env |-> c.env, calls |-> c.calls]

\* upload_to_gcs from the completion of file.read() to its return or raise
upload_to_gcs_resume(cfg, f, in) ==
    LET rd == read(f) IN
    IF ~in.io
    THEN [out |-> Raised(HTTPException(500, <<"GCS upload failed: ", "OSError">>)),
          file |-> f, calls |-> <<>>]
    ELSE [out |->
            IF in.put = "ok"
            THEN UploadResponse(
                   <<"File '", f.filename, "' uploaded successfully to GCS">>,
                   << <<"https://storage.googleapis.com/", cfg.GCS_BUCKET_NAME, "/",
                        f.filename>> >>,
                   <<>>)
            ELSE Raised(HTTPException(500, <<"GCS upload failed: ", "Exception">>)),
          file |-> rd.file,
          calls |-> <<Call("gcs", "upload_from_string", in.put, f.filename, rd.data)>>]

\* upload_to_drive up to `await file.read()`: no configuration check
upload_to_drive_enter(cfg, env, in) ==
    LET s == get_drive_service(in) IN
    IF s.exc.raised
    THEN [exc |-> HTTPException(500, <<"Google Drive upload failed: ">> \o str(s.exc)),
          env |-> env, calls |-> s.calls]
    ELSE [exc |-> NoExc, env |-> env, calls |-> s.calls]

\* the vendor's answer to files().create(fields='id,webViewLink,webContentLink')
DriveFileId == <<"fid">>
DriveViewLink == << <<"https://drive.google.com/file/d/", "fid", "/view">> >>

\* upload_to_drive from the completion of file.read() to its return or raise
upload_to_drive_resume(cfg, f, in) ==
    LET rd == read(f) IN
    IF ~in.io
    THEN [out |-> Raised(HTTPException(500, <<"Google Drive upload failed: ", "OSError">>)),
          file |-> f, calls |-> <<>>]
    ELSE [out |->
            IF in.put = "ok"
            THEN UploadResponse(
                   <<"File '", f.filename, "' uploaded successfully to Google Drive">>,
                   IF "webViewLink" \in in.fields THEN DriveViewLink ELSE <<>>,
                   IF "id" \in in.fields THEN DriveFileId ELSE <<>>)
            ELSE Raised(HTTPException(500, <<"Google Drive upload failed: ", "HttpError">>)),
          file |-> rd.file,
          calls |-> <<Call("drive", "files.create", in.put, f.filename, rd.data)>>]

upload_enter(b, cfg, env, in) ==
    CASE b = "s3"  -> upload_to_s3_enter(cfg, env, in)
      [] b = "gcs" -> upload_to_gcs_enter(cfg, env, in)
      [] OTHER     -> upload_to_drive_enter(cfg, env, in)

upload_resume(b, cfg, f, in) ==
    CASE b = "s3"  -> upload_to_s3_resume(cfg, f, in)
      [] b = "gcs" -> upload_to_gcs_resume(cfg, f, in)
      [] OTHER     -> upload_to_drive_resume(cfg, f, in)

NoToken == [exists |-> FALSE, wellformed |-> FALSE, valid |-> FALSE,
            expired |-> FALSE, refresh_token |-> FALSE]

\* what the environment decides while a handler runs to its await
EnterInputs(b, I) ==
    IF b = "drive"
    THEN [client : I.client, token : I.tokens, refresh : I.vendor]
    ELSE [client : I.client, token : {NoToken}, refresh : {TRUE}]

\* what the environment decides from the read to the handler's end
ResumeInputs(b, I) ==
    [io : I.io,
     put : IF b = "s3" THEN I.s3put
           ELSE {IF v THEN "ok" ELSE "Exception" : v \in I.vendor},
     fields : IF b = "drive" THEN I.fields ELSE {{}}]

----------------------------------------------------------------------------
(* List handlers: no await inside, each runs in one slice *)

Files200(files) == [raised |-> FALSE, status |-> 200, message |-> <<>>, files |-> files]

ListError(e) == [raised |-> TRUE, status |-> e.status, message |-> e.detail, files |-> <<>>]

list_s3_files(cfg, env, in) ==
    IF ~Truthy(cfg.S3_BUCKET_NAME)
    THEN [out |-> ListError(NotConfigured(<<"S3 bucket name not configured">>)),
          env |-> env, calls |-> <<>>]
    ELSE LET c == get_s3_client(in.client) IN
         IF c.exc.raised
         THEN [out |-> ListError(HTTPException(500, <<"Failed to list S3 files: ">> \o str(c.exc))),
               env |-> env, calls |-> c.calls]
         ELSE IF in.vendor
         THEN [out |-> Files200(in.listing), env |-> env,
               calls |-> c.calls \o <<Call("s3", "list_objects_v2", "ok", "", <<>>)>>]
         ELSE [out |-> ListError(HTTPException(500, <<"Failed to list S3 files: ", "ClientError">>)),
               env |-> env,
               calls |-> c.calls \o <<Call("s3", "list_objects_v2", "Exception", "", <<>>)>>]

list_gcs_files(cfg, env, in) ==
    IF ~Truthy(cfg.GCS_BUCKET_NAME)
    THEN [out |-> ListError(NotConfigured(<<"GCS bucket name not configured">>)),
          env |-> env, calls |-> <<>>]
    ELSE LET c == get_gcs_client(cfg, env, in.client) IN
         IF c.exc.raised
         THEN [out |-> ListError(HTTPException(500, <<"Failed to list GCS files: ">> \o str(c.exc))),
               env |-> c.env, calls |-> c.calls]
         ELSE IF in.vendor
         THEN [out |-> Files200(in.listing), env |-> c.env,
               calls |-> c.calls \o <<Call("gcs", "list_blobs", "ok", "", <<>>)>>]
         ELSE [out |-> ListError(HTTPException(500, <<"Failed to list GCS files: ", "Exception">>)),
               env |-> c.env,
               calls |-> c.calls \o <<Call("gcs", "list_blobs", "Exception", "", <<>>)>>]

\* list_drive_files: no configuration check
list_drive_files(cfg, env, in) ==
    LET s == get_drive_service(in) IN
    IF s.exc.raised
    THEN [out |-> ListError(HTTPException(500, <<"Failed to list Drive files: ">> \o str(s.exc))),
          env |-> env, calls |-> s.calls]
    ELSE IF in.vendor
    THEN [out |-> Files200(in.listing), env |-> env,
          calls |-> s.calls \o <<Call("drive", "files.list", "ok", "", <<>>)>>]
    ELSE [out |-> ListError(HTTPException(500, <<"Failed to list Drive files: ", "HttpError">>)),
          env |-> env,
          calls |-> s.calls \o <<Call("drive", "files.list", "Exception", "", <<>>)>>]

list_files(b, cfg, env, in) ==
    CASE b = "s3"  -> list_s3_files(cfg, env, in)
      [] b = "gcs" -> list_gcs_files(cfg, env, in)
      [] OTHER     -> list_drive_files(cfg, env, in)

ListInputs(b, I) ==
    IF b = "drive"
    THEN [client : I.client, token : I.tokens, refresh : I.vendor,
          vendor : I.vendor, listing : I.listings]
    ELSE [client : I.client, token : {NoToken}, refresh : {TRUE},
          vendor : I.vendor, listing : I.listings]

----------------------------------------------------------------------------
(* /health and the fan-out of /upload/all *)

\* a health check that asks for the bucket names only
health_check_bucket_only(cfg) ==
    [b \in Backends |->
        CASE b = "s3"  -> Truthy(cfg.S3_BUCKET_NAME)
          [] b = "gcs" -> Truthy(cfg.GCS_BUCKET_NAME)
          [] OTHER     -> Truthy(cfg.GOOGLE_DRIVE_CREDENTIALS_FILE)]

\* health_check: the services mapping
health_check(cfg) ==
    [b \in Backends |->
        CASE b = "s3"  -> Truthy(cfg.S3_BUCKET_NAME) /\ Truthy(cfg.AWS_ACCESS_KEY_ID)
          [] b = "gcs" -> Truthy(cfg.GCS_BUCKET_NAME)
          [] OTHER     -> Truthy(cfg.GOOGLE_DRIVE_CREDENTIALS_FILE)]

\* fan-out guards that reuse the bucket check of upload_to_s3
all_guard_bucket_only(b, cfg) ==
    CASE b = "s3"  -> Truthy(cfg.S3_BUCKET_NAME)
      [] b = "gcs" -> Truthy(cfg.GCS_BUCKET_NAME)
      [] OTHER     -> Truthy(cfg.GOOGLE_DRIVE_CREDENTIALS_FILE)

\* the three `if` guards of upload_to_all_services
all_guard(b, cfg) ==
    CASE b = "s3"  -> Truthy(cfg.S3_BUCKET_NAME) /\ Truthy(cfg.AWS_ACCESS_KEY_ID)
      [] b = "gcs" -> Truthy(cfg.GCS_BUCKET_NAME)
      [] OTHER     -> Truthy(cfg.GOOGLE_DRIVE_CREDENTIALS_FILE)

\* the Drive block moved above the GCS block
OrderDriveBeforeGcs == <<"s3", "drive", "gcs">>

\* the textual order of the three blocks of upload_to_all_services
Order == <<"s3", "gcs", "drive">>

IndexOf(b) == CHOOSE i \in 1..Len(Order) : Order[i] = b

\* the first block after position i whose guard holds, "" when none is left
NextBlock(i, cfg) ==
    LET later == {j \in (i + 1)..Len(Order) : all_guard(Order[j], cfg)} IN
    IF later = {} THEN ""
    ELSE Order[CHOOSE j \in later : \A k \in later : j <= k]

\* results[key] = value of a Python dict kept in insertion order
DictSet(d, key, value) ==
    IF \E i \in 1..Len(d) : d[i].key = key
    THEN [i \in 1..Len(d) |-> IF d[i].key = key THEN [key |-> key, value |-> value] ELSE d[i]]
    ELSE Append(d, [key |-> key, value |-> value])

\* x_result.dict() in the try branch
ResultDict(out) ==
    [success |-> out.success, message |-> out.message,
     file_url |-> out.file_url, file_id |-> out.file_id]

\* {"success": False, "message": str(e)} in the except branch
FailureDict(message) ==
    [success |-> FALSE, message |-> message, file_url |-> <<>>, file_id |-> <<>>]

\* the GCS block pasted from the S3 block with its key left as 's3'
ResultKeyPasted(b) == IF b = "gcs" THEN "s3" ELSE b

\* the key the block of backend b stores its outcome under
ResultKey(b) == b

----------------------------------------------------------------------------
(* Requests *)

Endpoints == {"root", "upload_s3", "upload_gcs", "upload_drive", "upload_all",
              "list_s3", "list_gcs", "list_drive", "health"}

UploadOne == {"upload_s3", "upload_gcs", "upload_drive"}
ListOne == {"list_s3", "list_gcs", "list_drive"}
TakesFile == UploadOne \cup {"upload_all"}

BackendOf(ep) ==
    CASE ep \in {"upload_s3", "list_s3"}   -> "s3"
      [] ep \in {"upload_gcs", "list_gcs"} -> "gcs"
      [] OTHER                             -> "drive"

NoBody == [filename |-> "", content |-> <<>>]

NoResp ==
    [status |-> 0, success |-> FALSE, message |-> <<>>, file_url |-> <<>>,
     file_id |-> <<>>, results |-> <<>>, files |-> <<>>,
     flags |-> [b \in Backends |-> FALSE]]

IdleReq ==
    [ep |-> "idle", pc |-> "idle", cur |-> "", submitted |-> NoBody,
     results |-> <<>>, resp |-> NoResp, calls |-> <<>>, trace |-> <<>>]

\* the JSON body FastAPI sends for an UploadResponse or an HTTPException
UploadReply(out) ==
    [NoResp EXCEPT !.status = out.status, !.success = out.success,
                   !.message = out.message, !.file_url = out.file_url,
                   !.file_id = out.file_id]

ListReply(out) ==
    [NoResp EXCEPT !.status = out.status, !.message = out.message,
                   !.files = out.files]

Event(ev, b) == [ev |-> ev, backend |-> b]

\* the fan-out after the block of backend b ended with `value`:
\* store it, then run to the next await or to the return
AllAdvance(rq, b, raised, value, newcalls) ==
    LET results == DictSet(rq.results, ResultKey(b), value)
        trace   == Append(rq.trace, Event(IF raised THEN "fail" ELSE "ok", b))
        nxt     == NextBlock(IndexOf(b), CloudConfig)
    IN  IF nxt = ""
        THEN [rq EXCEPT !.results = results, !.trace = trace,
                        !.calls = rq.calls \o newcalls,
                        !.cur = "", !.pc = "done",
                        !.resp = [NoResp EXCEPT !.status = 200, !.results = results]]
        ELSE [rq EXCEPT !.results = results,
                        !.trace = Append(trace, Event("try", nxt)),
                        !.calls = rq.calls \o newcalls,
                        !.cur = nxt, !.pc = "seek"]

----------------------------------------------------------------------------
(* Actions: one per slice of a handler between awaits *)

\* the server accepts a request and binds the handler's parameters
Receive(r, I) ==
    /\ req[r].pc = "idle"
    /\ \E ep \in Endpoints :
         \E f \in (IF ep \in TakesFile THEN I.files ELSE {NoBody}) :
            /\ req' = [req EXCEPT ![r] = [IdleReq EXCEPT !.ep = ep, !.pc = "start",
                                                        !.submitted = f]]
            /\ upfile' = [upfile EXCEPT ![r] = NewUploadFile(f)]
    /\ UNCHANGED <<environ, CloudConfig>>

\* GET /
Root(r) ==
    /\ req[r].pc = "start" /\ req[r].ep = "root"
    /\ req' = [req EXCEPT ![r].pc = "done",
                          ![r].resp = [NoResp EXCEPT !.status = 200,
                                          !.message = <<"Cloud File Upload API">>]]
    /\ UNCHANGED <<environ, CloudConfig, upfile>>

\* GET /health
Health(r) ==
    /\ req[r].pc = "start" /\ req[r].ep = "health"
    /\ req' = [req EXCEPT ![r].pc = "done",
                          ![r].resp = [NoResp EXCEPT !.status = 200,
                                          !.message = <<"healthy">>,
                                          !.flags = health_check(CloudConfig)]]
    /\ UNCHANGED <<environ, CloudConfig, upfile>>

\* POST /upload/{s3,gcs,drive}: from entry to `await file.read()`
UploadEnter(r, I) ==
    /\ req[r].pc = "start" /\ req[r].ep \in UploadOne
    /\ LET b == BackendOf(req[r].ep) IN
       \E in \in EnterInputs(b, I) :
          LET e == upload_enter(b, CloudConfig, environ, in) IN
          /\ environ' = e.env
          /\ req' = IF e.exc.raised
                    THEN [req EXCEPT ![r].calls = @ \o e.calls, ![r].pc = "done",
                                     ![r].resp = UploadReply(Raised(e.exc))]
                    ELSE [req EXCEPT ![r].calls = @ \o e.calls, ![r].pc = "read",
                                     ![r].cur = b]
    /\ UNCHANGED <<CloudConfig, upfile>>

\* POST /upload/{s3,gcs,drive}: from the read to the response
UploadResume(r, I) ==
    /\ req[r].pc = "read" /\ req[r].ep \in UploadOne
    /\ LET b == req[r].cur IN
       \E in \in ResumeInputs(b, I) :
          LET x == upload_resume(b, CloudConfig, upfile[FileOf(r)], in) IN
          /\ upfile' = [upfile EXCEPT ![FileOf(r)] = x.file]
          /\ req' = [req EXCEPT ![r].calls = @ \o x.calls, ![r].pc = "done",
                                ![r].cur = "", ![r].resp = UploadReply(x.out)]
    /\ UNCHANGED <<environ, CloudConfig>>

\* GET /list/{s3,gcs,drive}
List(r, I) ==
    /\ req[r].pc = "start" /\ req[r].ep \in ListOne
    /\ LET b == BackendOf(req[r].ep) IN
       \E in \in ListInputs(b, I) :
          LET x == list_files(b, CloudConfig, environ, in) IN
          /\ environ' = x.env
          /\ req' = [req EXCEPT ![r].calls = @ \o x.calls, ![r].pc = "done",
                                ![r].resp = ListReply(x.out)]
    /\ UNCHANGED <<CloudConfig, upfile>>

\* POST /upload/all: results = {}, then to the first `await file.seek(0)` or the return
AllBegin(r) ==
    /\ req[r].pc = "start" /\ req[r].ep = "upload_all"
    /\ LET nxt == NextBlock(0, CloudConfig) IN
       req' = IF nxt = ""
              THEN [req EXCEPT ![r].pc = "done",
                               ![r].resp = [NoResp EXCEPT !.status = 200]]
              ELSE [req EXCEPT ![r].pc = "seek", ![r].cur = nxt,
                               ![r].trace = <<Event("try", nxt)>>]
    /\ UNCHANGED <<environ, CloudConfig, upfile>>

\* POST /upload/all: the seek completes and the nested handler runs to its read
AllSeek(r, I) ==
    /\ req[r].pc = "seek" /\ req[r].ep = "upload_all"
    /\ LET b == req[r].cur IN
       \E io \in I.io :
          IF ~io
          THEN /\ req' = [req EXCEPT ![r] =
                            AllAdvance(req[r], b, TRUE, FailureDict(<<"OSError">>), <<>>)]
               /\ UNCHANGED <<environ, upfile>>
          ELSE \E in \in EnterInputs(b, I) :
                  LET e == upload_enter(b, CloudConfig, environ, in) IN
                  /\ upfile' = [upfile EXCEPT ![FileOf(r)] = seek(@, 0)]
                  /\ environ' = e.env
                  /\ req' = IF e.exc.raised
                            THEN [req EXCEPT ![r] =
                                    AllAdvance(req[r], b, TRUE, FailureDict(str(e.exc)),
                                               e.calls)]
                            ELSE [req EXCEPT ![r].calls = @ \o e.calls,
                                             ![r].pc = "read"]
    /\ UNCHANGED CloudConfig

\* POST /upload/all: the nested handler's read completes and its outcome is stored
AllRead(r, I) ==
    /\ req[r].pc = "read" /\ req[r].ep = "upload_all"
    /\ LET b == req[r].cur IN
       \E in \in ResumeInputs(b, I) :
          LET x == upload_resume(b, CloudConfig, upfile[FileOf(r)], in)
              value == IF x.out.raised
                       THEN FailureDict(str(HTTPException(x.out.status, x.out.message)))
                       ELSE ResultDict(x.out)
          IN  /\ upfile' = [upfile EXCEPT ![FileOf(r)] = x.file]
              /\ req' = [req EXCEPT ![r] =
                           AllAdvance(req[r], b, x.out.raised, value, x.calls)]
    /\ UNCHANGED <<environ, CloudConfig>>

\* the response is sent; the request's objects are discarded
Close(r) ==
    /\ req[r].pc = "done"
    /\ req' = [req EXCEPT ![r] = IdleReq]
    /\ upfile' = [upfile EXCEPT ![r] = NoFile]
    /\ UNCHANGED <<environ, CloudConfig>>

----------------------------------------------------------------------------
(* Specifications *)

\* process start: any environment; CloudConfig is evaluated from it once
Init ==
    /\ environ \in Environments
    /\ CloudConfig = LoadConfig(environ)
    /\ upfile = [r \in Reqs |-> NoFile]
    /\ req = [r \in Reqs |-> IdleReq]

\* one request at a time, every input
Next ==
    \E r \in SeqReqs :
       \/ Receive(r, AllInputs)
       \/ Root(r)
       \/ Health(r)
       \/ UploadEnter(r, AllInputs)
       \/ UploadResume(r, AllInputs)
       \/ List(r, AllInputs)
       \/ AllBegin(r)
       \/ AllSeek(r, AllInputs)
       \/ AllRead(r, AllInputs)
       \/ Close(r)

Spec == Init /\ [][Next]_vars

\* process start with every backend configured
InitConc ==
    /\ environ \in {e \in Environments :
                       \A b \in Backends : health_check(LoadConfig(e))[b]}
    /\ CloudConfig = LoadConfig(environ)
    /\ upfile = [r \in Reqs |-> NoFile]
    /\ req = [r \in Reqs |-> IdleReq]

\* two requests interleaved at their awaits
NextConc ==
    \E r \in Reqs :
       \/ Receive(r, ConcInputs)
       \/ Root(r)
       \/ Health(r)
       \/ UploadEnter(r, ConcInputs)
       \/ UploadResume(r, ConcInputs)
       \/ List(r, ConcInputs)
       \/ AllBegin(r)
       \/ AllSeek(r, ConcInputs)
       \/ AllRead(r, ConcInputs)
       \/ Close(r)

SpecConc == InitConc /\ [][NextConc]_vars

----------------------------------------------------------------------------
(* Properties *)

Done(r) == req[r].pc = "done"

\* the backends /health reports as configured
Configured == {b \in Backends : health_check(CloudConfig)[b]}

UploadOps == {"put_object", "upload_from_string", "files.create"}
ListOps == {"list_objects_v2", "list_blobs", "files.list"}

CallsOf(r, ops) == {i \in 1..Len(req[r].calls) : req[r].calls[i].op \in ops}

Keys(results) == [i \in 1..Len(results) |-> results[i].key]

Failures(results) == {i \in 1..Len(results) : ~results[i].value.success}

EventsOf(r, ev) == {i \in 1..Len(req[r].trace) : req[r].trace[i].ev = ev}

Tried(r) == {req[r].trace[i].backend : i \in EventsOf(r, "try")}

Failed(r) == {req[r].trace[i].backend : i \in EventsOf(r, "fail")}

\* an Optional[str] that is a string with at least one character
NonEmptyStr(opt) == opt # <<>> /\ \E i \in 1..Len(opt[1]) : opt[1][i] # ""

NotConfiguredMessages ==
    {<<"S3 bucket name not configured">>, <<"GCS bucket name not configured">>}

\* C1: /upload/all returns normally with one entry per configured backend, as
\* many success=false entries as backends whose block raised, and every
\* configured backend attempted whatever happened to the earlier ones.
C1_FanOutRecordsEveryBackend ==
    \A r \in Reqs :
       (Done(r) /\ req[r].ep = "upload_all") =>
          /\ req[r].resp.status = 200
          /\ Len(req[r].resp.results) = Cardinality(Configured)
          /\ Cardinality(Failures(req[r].resp.results)) = Cardinality(Failed(r))
          /\ \A i \in 1..Len(req[r].resp.results) :
                ~req[r].resp.results[i].value.success
                   <=> req[r].resp.results[i].key \in Failed(r)
          /\ Tried(r) = Configured

\* three backends configured, the first two fail, the third is still uploaded to
C1_Witness ==
    \E r \in Reqs :
       /\ Done(r) /\ req[r].ep = "upload_all"
       /\ Configured = Backends
       /\ Failed(r) = {"s3", "gcs"}
       /\ Len(req[r].resp.results) = 3
       /\ req[r].resp.results[3].value.success

\* C2: a backend is a key of the /upload/all results exactly when /health
\* reports it configured, and the fan-out makes no call for any other backend.
C2_KeysAreConfiguredBackends ==
    \A r \in Reqs :
       (req[r].ep = "upload_all") =>
          /\ Done(r) => {req[r].resp.results[i].key :
                            i \in 1..Len(req[r].resp.results)} = Configured
          /\ \A i \in 1..Len(req[r].calls) : req[r].calls[i].backend \in Configured
          /\ Tried(r) \subseteq Configured

\* only S3 configured: the result is {s3: success}
C2_Witness ==
    \E r \in Reqs :
       /\ Done(r) /\ req[r].ep = "upload_all"
       /\ Configured = {"s3"}
       /\ Keys(req[r].resp.results) = <<"s3">>
       /\ req[r].resp.results[1].value.success

\* C3: a single-backend upload or list for a backend /health reports as not
\* configured fails with a not-configured error and makes no client, auth or
\* vendor call.
C3_UnconfiguredNeverReachesAdapter ==
    \A r \in Reqs :
       (Done(r) /\ req[r].ep \in UploadOne \cup ListOne
                /\ BackendOf(req[r].ep) \notin Configured) =>
          /\ req[r].resp.status # 200
          /\ req[r].resp.message \in NotConfiguredMessages
          /\ req[r].calls = <<>>

\* C4 as stated: a failing single-backend request gets 4xx when the backend is
\* not configured and 5xx with a message otherwise.
C4_StatusClassByKind ==
    \A r \in Reqs :
       (Done(r) /\ req[r].ep \in UploadOne \cup ListOne /\ req[r].resp.status # 200) =>
          IF BackendOf(req[r].ep) \notin Configured
          THEN req[r].resp.status \in 400..499
          ELSE req[r].resp.status \in 500..599 /\ req[r].resp.message # <<>>

\* the vendor call of an S3 upload raised NoCredentialsError
S3NoCredentials(r) ==
    /\ req[r].ep = "upload_s3"
    /\ \E i \in 1..Len(req[r].calls) :
          req[r].calls[i].op = "put_object"
             /\ req[r].calls[i].outcome = "NoCredentialsError"

\* C4 amended: a failing single-backend request gets 401 exactly when an S3
\* upload's vendor call raised NoCredentialsError and 500 in every other case,
\* a missing bucket setting included; every failure carries a message.
C4_StatusByKindAmended ==
    \A r \in Reqs :
       (Done(r) /\ req[r].ep \in UploadOne \cup ListOne /\ req[r].resp.status # 200) =>
          /\ req[r].resp.message # <<>>
          /\ req[r].resp.status = (IF S3NoCredentials(r) THEN 401 ELSE 500)

\* a request for S3 with no bucket set is answered 500
C4_Witness ==
    \E r \in Reqs :
       /\ Done(r) /\ req[r].ep = "upload_s3"
       /\ ~Truthy(CloudConfig.S3_BUCKET_NAME)
       /\ req[r].resp.status = 500
       /\ req[r].resp.message = <<"S3 bucket name not configured">>

\* get_drive_service found no usable token and could not refresh it
DriveAuthRequired(r) ==
    \E i \in 1..Len(req[r].calls) : req[r].calls[i].op = "auth_required"

\* C5: with no token, or an invalid one that cannot be refreshed, /upload/drive
\* and /list/drive end with status 401 and never call files().create or
\* files().list.
C5_DriveFailsClosedWith401 ==
    \A r \in Reqs :
       (Done(r) /\ req[r].ep \in {"upload_drive", "list_drive"} /\ DriveAuthRequired(r)) =>
          /\ req[r].resp.status = 401
          /\ CallsOf(r, {"files.create", "files.list"}) = {}

\* C6: every vendor upload call receives the submitted name and the complete
\* submitted content, for each single-backend upload and for every backend of
\* /upload/all whatever its position.
C6_VendorReceivesSubmittedFile ==
    \A r \in Reqs :
       \A i \in CallsOf(r, UploadOps) :
          /\ req[r].calls[i].name = req[r].submitted.filename
          /\ req[r].calls[i].body = req[r].submitted.content

\* a non-empty file reaches all three backends of one /upload/all
C6_Witness ==
    \E r \in Reqs :
       /\ Done(r) /\ req[r].ep = "upload_all"
       /\ Len(req[r].submitted.content) = MaxLen
       /\ {req[r].calls[i].op : i \in CallsOf(r, UploadOps)} = UploadOps

\* C7: a single-backend upload to a configured backend whose vendor call
\* succeeds answers success=true with a non-empty file_url, whatever fields the
\* vendor's answer holds.
C7_SuccessHasLocation ==
    \A r \in Reqs :
       (Done(r) /\ req[r].ep \in UploadOne /\ BackendOf(req[r].ep) \in Configured
                /\ \E i \in CallsOf(r, UploadOps) : req[r].calls[i].outcome = "ok") =>
          /\ req[r].resp.success
          /\ NonEmptyStr(req[r].resp.file_url)

\* a setting of the process environment that is present and not empty
Present(k) == environ[k] # None /\ environ[k] # ""

\* C8: /health answers 200 without any client, auth or vendor call, and each
\* flag says whether the backend's settings are present in the environment,
\* whatever requests were served before.
C8_HealthReportsConfiguration ==
    \A r \in Reqs :
       (Done(r) /\ req[r].ep = "health") =>
          /\ req[r].resp.status = 200
          /\ req[r].calls = <<>>
          /\ req[r].resp.flags["s3"] = (Present("S3_BUCKET_NAME") /\ Present("AWS_ACCESS_KEY_ID"))
          /\ req[r].resp.flags["gcs"] = Present("GCS_BUCKET_NAME")
          /\ req[r].resp.flags["drive"] = Present("GOOGLE_DRIVE_CREDENTIALS_FILE")

\* a bucket without an access key: s3 is reported as not configured
C8_Witness ==
    \E r \in Reqs :
       /\ Done(r) /\ req[r].ep = "health"
       /\ Present("S3_BUCKET_NAME") /\ ~Present("AWS_ACCESS_KEY_ID")
       /\ Present("GCS_BUCKET_NAME")
       /\ req[r].resp.flags = [b \in Backends |-> b = "gcs"]

Rank(b) == CASE b = "s3" -> 1 [] b = "gcs" -> 2 [] OTHER -> 3

\* C9: /upload/all tries the configured backends in the order s3, gcs, drive,
\* each at most once and each only after the previous one returned or raised;
\* the results keep that order.
C9_FanOutOrder ==
    \A r \in Reqs :
       (req[r].ep = "upload_all") =>
          LET t == req[r].trace
              k == Keys(req[r].results)
          IN  /\ \A i \in 1..Len(t) :
                    IF i % 2 = 1
                    THEN t[i].ev = "try"
                    ELSE t[i].ev \in {"ok", "fail"} /\ t[i].backend = t[i - 1].backend
              /\ \A i, j \in EventsOf(r, "try") :
                    i < j => Rank(t[i].backend) < Rank(t[j].backend)
              /\ Len(k) = Len(t) \div 2
              /\ \A i \in 1..Len(k) : k[i] = t[2 * i].backend
              /\ \A b \in Backends :
                    Cardinality({i \in CallsOf(r, UploadOps) :
                                    req[r].calls[i].backend = b}) <= 1
              /\ Done(r) => req[r].resp.results = req[r].results

\* all three tried in order, the middle one failing
C9_Witness ==
    \E r \in Reqs :
       /\ Done(r) /\ req[r].ep = "upload_all"
       /\ Keys(req[r].resp.results) = <<"s3", "gcs", "drive">>
       /\ Failed(r) = {"gcs"}

\* what a request's calls and results may mention: its own file only
OwnOutcomes(r) ==
    /\ \A i \in CallsOf(r, UploadOps) :
          /\ req[r].calls[i].name = req[r].submitted.filename
          /\ req[r].calls[i].body = req[r].submitted.content
    /\ \A i \in 1..Len(req[r].results) :
          /\ req[r].results[i].key \in Tried(r)
          /\ req[r].results[i].value.success =>
                req[r].results[i].value.message[2] = req[r].submitted.filename
    /\ (Done(r) /\ req[r].ep \in UploadOne /\ req[r].resp.success) =>
          req[r].resp.message[2] = req[r].submitted.filename

\* C10: with two requests interleaved at their awaits, each request's vendor
\* calls and results carry only its own file, and no step changes the value of
\* the configuration or of the process environment.
C10_RequestsAreIsolated ==
    /\ [](\A r \in Reqs : OwnOutcomes(r))
    /\ [][CloudConfig' = CloudConfig /\ environ' = environ]_vars

\* both requests are between a read and its completion, with different files,
\* one of them already past its first backend
C10_Witness ==
    /\ req["r1"].pc = "read" /\ req["r2"].pc = "read"
    /\ req["r1"].ep = "upload_all" /\ req["r2"].ep = "upload_all"
    /\ req["r1"].submitted.content # req["r2"].submitted.content
    /\ req["r1"].submitted.filename # req["r2"].submitted.filename
    /\ req["r1"].cur = "gcs" /\ req["r2"].cur = "drive"
    /\ CallsOf("r1", UploadOps) # {} /\ CallsOf("r2", UploadOps) # {}

====
